---- MODULE Spec2Model ----
(***************************************************************************)
(* Candidate tundra-fire detection (candidate_fire_vector_export_code.js). *)
(* The script is an Earth Engine expression graph evaluated per pixel; the *)
(* model follows one pixel through the harmonizer, the index engine, the   *)
(* compositor, the burn metrics, the deviation detector and rule fusion.   *)
(* A pixel is a record [mask, v, d]: mask = 0 is a masked (no-data) pixel,  *)
(* and a pixel with data has the value v / d (d > 0, v and d coprime).     *)
(***************************************************************************)
EXTENDS Integers, Sequences, FiniteSets, TLC

VARIABLES
  mpc,        \* quality masking: "raw", "lsMaskNew" or "SLC_lsMask"
  quality,    \* quality masking: the qa_pixel value of the pixel
  lsImg,      \* quality masking: the pixel of an index band before masking
  masked,     \* quality masking: the pixel after updateMask(clear)
  fpc,        \* rule fusion: "in", "masked", "thresholds" or "fused"
  fin,        \* rule fusion: the pixel's inputs (classifier output, deviation
              \* rasters, water and land references, geometry membership)
  fimg,       \* rule fusion: predictedImage, divIMG, subIMG, meanIMG
  fthresh,    \* rule fusion: hiRFthresh, hiDEVthresh, hiSUBthresh, hiMNthresh
  candidate,  \* rule fusion: the pixel of the image handed to reduceToVectors
  bpc,        \* burn metrics: "fireIndices", "dnbr", "rbr", "pre_nbr3", "rdnbr"
  fireIndices,\* burn metrics: pre_nbr and post_nbr of the pixel, in 1/10000
  burnIndices,\* burn metrics: dnbr, rbr, pre_nbr3, rdnbr of the pixel
  hpc,        \* harmonizer: "archive", "converted", "renamed", "indices", "masked"
  hin,        \* harmonizer: the collection, the raw digital values, the engine's
              \* treatment of negative inputs, the factor of the scaled copy
  lsImage,    \* harmonizer: the image at the current step of the map chain
  scaledIdx,  \* harmonizer: Indices of the renamed image with its reflectance
              \* bands multiplied by hin.factor
  cpc,        \* compositor: "start", "composites", "baseline", "deviations", "rules"
  year_select,\* compositor: the analysis year
  imgCol,     \* compositor: the merged collection at the pixel, a set of
              \* observations [t, level]
  composite,  \* compositor: pre_filled, post_filled, fireIndices
  deviation,  \* deviation detector: PREmedian, divCol, subCol, meanCol
  ruleBands,  \* deviation detector: the bands the four rules and dnbr select
  apc,        \* assembly: "catalog", "filtered", "mapped", "merged"
  catalog,    \* assembly: the acquisitions [sensor, t] over the ROI
  srCols,     \* assembly: ls4SR .. ls9SR, after their date filters
  fmtCols,    \* assembly: ls4 .. ls9, after the formatting functions
  lsCol,      \* assembly: the merged collection
  rpc,             \* run: "idle", "roi", "pipeline", "branch"
  year_selection,  \* the year slider
  ROI_selection,   \* the checkbox 'Draw polygon (instead of default ROI)'
  Download_selection, \* the checkbox 'Check to export vectors'
  drawLayers,      \* Map.drawingTools().layers(): each a sequence of geometries
  run,             \* the variables of the running click handler
  trainings,       \* number of classifier trainings so far
  tasks,           \* the export tasks issued so far
  mapLayers,       \* the layers of the map
  log,             \* the finished runs
  touched          \* a widget or the drawing layer changed since the last click

maskVars == <<mpc, quality, lsImg, masked>>
fusionVars == <<fpc, fin, fimg, fthresh, candidate>>
burnVars == <<bpc, fireIndices, burnIndices>>
harmVars == <<hpc, hin, lsImage, scaledIdx>>
compVars == <<cpc, year_select, imgCol, composite, deviation, ruleBands>>
asmVars == <<apc, catalog, srCols, fmtCols, lsCol>>
runVars == <<rpc, year_selection, ROI_selection, Download_selection, drawLayers,
             run, trainings, tasks, mapLayers, log, touched>>
vars == <<mpc, quality, lsImg, masked, fpc, fin, fimg, fthresh, candidate,
          bpc, fireIndices, burnIndices, hpc, hin, lsImage, scaledIdx,
          cpc, year_select, imgCol, composite, deviation, ruleBands,
          apc, catalog, srCols, fmtCols, lsCol,
          rpc, year_selection, ROI_selection, Download_selection, drawLayers,
          run, trainings, tasks, mapLayers, log, touched>>

----------------------------------------------------------------------------
(* Pixels and integer helpers *)

NoData == [mask |-> 0, v |-> 0, d |-> 1]
Pix(x) == [mask |-> 1, v |-> x, d |-> 1]
IsData(p) == p.mask = 1

Abs(x) == IF x < 0 THEN -x ELSE x

RECURSIVE GCD(_, _)
GCD(a, b) == IF b = 0 THEN a ELSE GCD(b, a % b)

\* the pixel holding the quotient n / d, d # 0, in lowest terms
Rat(n, d) ==
  LET g == GCD(Abs(n), Abs(d))
      sgn == IF d < 0 THEN -1 ELSE 1
  IN [mask |-> 1, v |-> sgn * (n \div g), d |-> sgn * (d \div g)]

RECURSIVE Pow2(_)
Pow2(k) == IF k = 0 THEN 1 ELSE 2 * Pow2(k - 1)

\* the bit operations of the engine on non-negative integers
RECURSIVE bitwiseAnd(_, _)
bitwiseAnd(a, b) ==
  IF a = 0 \/ b = 0 THEN 0
  ELSE (a % 2) * (b % 2) + 2 * bitwiseAnd(a \div 2, b \div 2)

\* Image.or / Image.not: any non-zero value is true
Or(a, b) == IF a # 0 \/ b # 0 THEN 1 ELSE 0
Not(a) == IF a = 0 THEN 1 ELSE 0
Gte(a, b) == IF a >= b THEN 1 ELSE 0

\* Image.updateMask: the pixel is kept where the mask image has data and is
\* non-zero, and becomes no-data elsewhere
updateMask(p, m) == IF IsData(m) /\ m.v # 0 THEN p ELSE NoData

----------------------------------------------------------------------------
(* Quality masks of the harmonizer *)

QABits == 10
BandVals == {0, 5}

dilatedCloud == Pow2(1)
cloud == Pow2(3)
cloudShadow == Pow2(4)
water == Pow2(7)
snow == Pow2(5)

confX == <<0, 129, 257, 384>>
confY == <<0, 1, 2, 3>>

\* interpolate(x, y, 'clamp').int(): piecewise linear, clamped, truncated
RECURSIVE interpolateInt(_, _, _, _)
interpolateInt(x, xs, ys, i) ==
  IF x <= xs[1] THEN ys[1]
  ELSE IF x >= xs[Len(xs)] THEN ys[Len(ys)]
  ELSE IF x < xs[i + 1]
       THEN ys[i] + ((x - xs[i]) * (ys[i + 1] - ys[i])) \div (xs[i + 1] - xs[i])
       ELSE interpolateInt(x, xs, ys, i + 1)

cloudConfidenceBits89(q) ==
  interpolateInt(bitwiseAnd(q, 256) + bitwiseAnd(q, 512), confX, confY, 1)

\* Cloud confidence as coded: bitwiseAnd(128).add(bitwiseAnd(256))
cloudConfidence(q) ==
  interpolateInt(bitwiseAnd(q, 128) + bitwiseAnd(q, 256), confX, confY, 1)

cloudConfidenceMedHigh(q) == Gte(cloudConfidence(q), 2)

lsMaskNewWaterBit6(q) ==
  Or(Or(Or(Or(bitwiseAnd(q, cloud), bitwiseAnd(q, dilatedCloud)),
           bitwiseAnd(q, cloudShadow)), bitwiseAnd(q, Pow2(6))),
     bitwiseAnd(q, snow))

\* the defect mask of lsMaskNew (the cloud-confidence term is commented out)
lsMaskNewMask(q) ==
  Or(Or(Or(Or(bitwiseAnd(q, cloud), bitwiseAnd(q, dilatedCloud)),
           bitwiseAnd(q, cloudShadow)), bitwiseAnd(q, water)),
     bitwiseAnd(q, snow))

\* the defect mask of SLC_lsMask
SLC_lsMaskMask(q) ==
  Or(Or(Or(Or(Or(bitwiseAnd(q, cloud), bitwiseAnd(q, dilatedCloud)),
              bitwiseAnd(q, cloudShadow)), bitwiseAnd(q, water)),
        bitwiseAnd(q, snow)),
     cloudConfidenceMedHigh(q))

MaskStart ==
  /\ mpc = "raw"
  /\ quality \in 0..(Pow2(QABits) - 1)
  /\ lsImg \in {Pix(x) : x \in BandVals}
  /\ masked = NoData

MaskIdle ==
  /\ mpc = "off"
  /\ quality = 0
  /\ lsImg = NoData
  /\ masked = NoData

lsMaskNew ==
  /\ mpc = "raw"
  /\ masked' = updateMask(lsImg, Pix(Not(lsMaskNewMask(quality))))
  /\ mpc' = "lsMaskNew"
  /\ UNCHANGED <<quality, lsImg>>
  /\ UNCHANGED <<fusionVars, burnVars, harmVars, compVars, asmVars, runVars>>

SLC_lsMask ==
  /\ mpc = "raw"
  /\ masked' = updateMask(lsImg, Pix(Not(SLC_lsMaskMask(quality))))
  /\ mpc' = "SLC_lsMask"
  /\ UNCHANGED <<quality, lsImg>>
  /\ UNCHANGED <<fusionVars, burnVars, harmVars, compVars, asmVars, runVars>>

NextMask == lsMaskNew \/ SLC_lsMask

----------------------------------------------------------------------------
(* Rule fusion: water and land masks, the four thresholds, the AND gate *)

\* thresholds of the four rules, in thousandths
RFthresh == 900
DEVthresh == 500
SUBthresh == -100
MNthresh == 0

\* comparisons and sums of images: a no-data operand gives no-data
gt(p, c) == IF IsData(p) THEN Pix(IF p.v > c * p.d THEN 1 ELSE 0) ELSE NoData
lt(p, c) == IF IsData(p) THEN Pix(IF p.v < c * p.d THEN 1 ELSE 0) ELSE NoData
eq(p, c) == IF IsData(p) THEN Pix(IF p.v = c * p.d THEN 1 ELSE 0) ELSE NoData
add(p, q) ==
  IF IsData(p) /\ IsData(q) THEN Rat(p.v * q.d + q.v * p.d, p.d * q.d) ELSE NoData
selfMask(p) == updateMask(p, p)
\* Image.clip: no-data outside the geometry
clip(p, inside) == IF inside THEN p ELSE NoData

\* JRC max_extent.eq(0).selfMask().clip(ROI)
dryLand(in) == clip(selfMask(eq(in.max_extent, 0)), in.inROI)
\* shoreline polygons rasterized with Reducer.count, clipped to the ROI:
\* a pixel no polygon covers has no data
land(in) ==
  clip(IF in.polygons > 0 THEN Pix(in.polygons) ELSE NoData, in.inROI)

maskLakesOcean(p, in) == updateMask(updateMask(p, dryLand(in)), land(in))

hiRFthreshGte(p) ==
  IF IsData(p) THEN Pix(IF p.v >= RFthresh * p.d THEN 1 ELSE 0) ELSE NoData

hiRFthresh(p) == gt(p, RFthresh)
hiDEVthresh(p) == lt(p, DEVthresh)
hiSUBthresh(p) == lt(p, SUBthresh)
hiMNthresh(p) == lt(p, MNthresh)

\* one.add(two).add(three).add(four).eq(4).selfMask()
ruleFusion(one, two, three, four) ==
  selfMask(eq(add(add(add(one, two), three), four), 4))

\* values on both sides of each threshold, the threshold itself, and no data
RuleInputs(t) == {NoData, Pix(t - 1), Pix(t), Pix(t + 1)}

FusionStart ==
  /\ fpc = "in"
  /\ fin \in [probability : RuleInputs(RFthresh),
               div_nbr2 : RuleInputs(DEVthresh),
               sub_nbr2 : RuleInputs(SUBthresh),
               min_nbr : RuleInputs(MNthresh),
               max_extent : {NoData, Pix(0), Pix(1)},
               polygons : {0, 1},
               inROI : BOOLEAN,
               inTile : BOOLEAN,
               branch : {"tiled", "drawn"}]
  /\ fimg = <<NoData, NoData, NoData, NoData>>
  /\ fthresh = <<NoData, NoData, NoData, NoData>>
  /\ candidate = NoData

FusionIdle ==
  /\ fpc = "off"
  /\ fin = [probability |-> NoData, div_nbr2 |-> NoData, sub_nbr2 |-> NoData,
            min_nbr |-> NoData, max_extent |-> NoData, polygons |-> 0,
            inROI |-> FALSE, inTile |-> FALSE, branch |-> "drawn"]
  /\ fimg = <<NoData, NoData, NoData, NoData>>
  /\ fthresh = <<NoData, NoData, NoData, NoData>>
  /\ candidate = NoData

\* predictedImage, divIMG, subIMG, meanIMG: mask lakes then ocean
MaskWaterOcean ==
  /\ fpc = "in"
  /\ fimg' = <<maskLakesOcean(fin.probability, fin),
               maskLakesOcean(fin.div_nbr2, fin),
               maskLakesOcean(fin.sub_nbr2, fin),
               maskLakesOcean(fin.min_nbr, fin)>>
  /\ fpc' = "masked"
  /\ UNCHANGED <<fin, fthresh, candidate>>
  /\ UNCHANGED <<maskVars, burnVars, harmVars, compVars, asmVars, runVars>>

\* now threshold using our 4 rules
Threshold ==
  /\ fpc = "masked"
  /\ fthresh' = <<hiRFthresh(fimg[1]), hiDEVthresh(fimg[2]),
                  hiSUBthresh(fimg[3]), hiMNthresh(fimg[4])>>
  /\ fpc' = "thresholds"
  /\ UNCHANGED <<fin, fimg, candidate>>
  /\ UNCHANGED <<maskVars, burnVars, harmVars, compVars, asmVars, runVars>>

\* the export branches: clip the four decisions to the tile (default region)
\* or to the drawn ROI, then fuse
Fuse ==
  /\ fpc = "thresholds"
  /\ LET inside == IF fin.branch = "tiled" THEN fin.inTile ELSE fin.inROI
     IN candidate' = ruleFusion(clip(fthresh[1], inside), clip(fthresh[2], inside),
                                clip(fthresh[3], inside), clip(fthresh[4], inside))
  /\ fpc' = "fused"
  /\ UNCHANGED <<fin, fimg, fthresh>>
  /\ UNCHANGED <<maskVars, burnVars, harmVars, compVars, asmVars, runVars>>

NextFusion == MaskWaterOcean \/ Threshold \/ Fuse

----------------------------------------------------------------------------
(* Burn metrics: dnbr, rbr, pre_nbr3, rdnbr *)
(* pre_nbr and post_nbr are in units of 1/10000; dnbr, rbr and rdnbr are    *)
(* the integers the script stores.  pre_nbr3 is a float: the model keeps    *)
(* the value placed under the square root (in 1/10000), so that             *)
(* pre_nbr3 = sqrt(radicand / 10000).                                       *)

Unit == 10000
NbrSpan == 12
\* 0.001 and 1.001 in units of 1/10000
Clamp == 10
RbrOffset == 10010

\* largest n in lo..hi with n * n <= x
RECURSIVE isqrtIn(_, _, _)
isqrtIn(x, lo, hi) ==
  IF lo >= hi THEN lo
  ELSE LET mid == (lo + hi + 1) \div 2
       IN IF mid * mid <= x THEN isqrtIn(x, mid, hi) ELSE isqrtIn(x, lo, mid - 1)
isqrt(x) == isqrtIn(x, 0, 46340)

toIntFloor(n, d) == IF d = 0 THEN 0 ELSE IF d < 0 THEN (-n) \div (-d) ELSE n \div d

\* toInt() of the quotient n / d: truncation toward zero (a division by
\* zero gives 0 in the engine)
toIntDiv(n, d) ==
  IF d = 0 THEN 0
  ELSE IF (n >= 0) = (d > 0) THEN Abs(n) \div Abs(d)
  ELSE -(Abs(n) \div Abs(d))

\* toInt() of n / sqrt(r / Unit), r > 0: the largest k with
\* k * k * r <= Unit * n * n, signed as n
toIntDivSqrt(n, r) ==
  IF r = 0 THEN 0
  ELSE LET g == GCD(Unit, r)
           k == isqrt(((Unit \div g) * n * n) \div (r \div g))
       IN IF n < 0 THEN -k ELSE k

\* "(b('pre_nbr') - b('post_nbr')) * 1000" .toInt()
dnbrExpr(pre, post) ==
  IF IsData(pre) /\ IsData(post)
  THEN Pix(toIntDiv((pre.v - post.v) * 1000, Unit)) ELSE NoData

\* "b('dnbr') / (b('pre_nbr') + 1.001)" .toInt()
rbrExpr(dnbr, pre) ==
  IF IsData(dnbr) /\ IsData(pre)
  THEN Pix(toIntDiv(dnbr.v * Unit, pre.v + RbrOffset)) ELSE NoData

preNbr3SignedTest(pre) ==
  IF IsData(pre) THEN Pix(Abs(IF pre.v < Clamp THEN Clamp ELSE pre.v)) ELSE NoData

preNbr3NoClamp(pre) == IF IsData(pre) THEN Pix(Abs(pre.v)) ELSE NoData

\* "abs(b('pre_nbr')) < 0.001 ? 0.001 : b('pre_nbr')" .abs(): the radicand
preNbr3Expr(pre) ==
  IF IsData(pre) THEN Pix(Abs(IF Abs(pre.v) < Clamp THEN Clamp ELSE pre.v)) ELSE NoData

\* "b('dnbr') / b('pre_nbr3')" .toInt()
rdnbrExpr(dnbr, radicand) ==
  IF IsData(dnbr) /\ IsData(radicand)
  THEN Pix(toIntDivSqrt(dnbr.v, radicand.v)) ELSE NoData

PreNbrVals == (-NbrSpan..NbrSpan) \cup {-10000, -5000, 6000, 10000}
PostNbrVals == {-1000, 0, 3000}

BurnStart ==
  /\ bpc = "fireIndices"
  /\ fireIndices \in [pre_nbr : {NoData} \cup {Pix(x) : x \in PreNbrVals},
                      post_nbr : {NoData} \cup {Pix(x) : x \in PostNbrVals}]
  /\ burnIndices = [dnbr |-> NoData, rbr |-> NoData, pre_nbr3 |-> NoData,
                    rdnbr |-> NoData]

BurnIdle ==
  /\ bpc = "off"
  /\ fireIndices = [pre_nbr |-> NoData, post_nbr |-> NoData]
  /\ burnIndices = [dnbr |-> NoData, rbr |-> NoData, pre_nbr3 |-> NoData,
                    rdnbr |-> NoData]

\* calculate dNBR
calcDNBR ==
  /\ bpc = "fireIndices"
  /\ burnIndices' = [burnIndices EXCEPT
                       !.dnbr = dnbrExpr(fireIndices.pre_nbr, fireIndices.post_nbr)]
  /\ bpc' = "dnbr"
  /\ UNCHANGED fireIndices
  /\ UNCHANGED <<maskVars, fusionVars, harmVars, compVars, asmVars, runVars>>

\* calculate RBR
calcRBR ==
  /\ bpc = "dnbr"
  /\ burnIndices' = [burnIndices EXCEPT
                       !.rbr = rbrExpr(burnIndices.dnbr, fireIndices.pre_nbr)]
  /\ bpc' = "rbr"
  /\ UNCHANGED fireIndices
  /\ UNCHANGED <<maskVars, fusionVars, harmVars, compVars, asmVars, runVars>>

\* calculate RdNBR: the clamped denominator
calcPreNbr3 ==
  /\ bpc = "rbr"
  /\ burnIndices' = [burnIndices EXCEPT !.pre_nbr3 = preNbr3Expr(fireIndices.pre_nbr)]
  /\ bpc' = "pre_nbr3"
  /\ UNCHANGED fireIndices
  /\ UNCHANGED <<maskVars, fusionVars, harmVars, compVars, asmVars, runVars>>

\* calculate RdNBR
calcRdNBR ==
  /\ bpc = "pre_nbr3"
  /\ burnIndices' = [burnIndices EXCEPT
                       !.rdnbr = rdnbrExpr(burnIndices.dnbr, burnIndices.pre_nbr3)]
  /\ bpc' = "rdnbr"
  /\ UNCHANGED fireIndices
  /\ UNCHANGED <<maskVars, fusionVars, harmVars, compVars, asmVars, runVars>>

NextBurn == calcDNBR \/ calcRBR \/ calcPreNbr3 \/ calcRdNBR

----------------------------------------------------------------------------
(* Images: named bands over one pixel *)
(* err marks an image whose computation failed (a band that does not exist  *)
(* was selected, or band counts do not match).                              *)

ErrorImage == [err |-> TRUE, names |-> <<>>, px |-> <<>>]
Image(names, px) == [err |-> FALSE, names |-> names, px |-> px]
\* ee.Image(): one band, "constant", masked everywhere
EmptyImage == Image(<<"constant">>, <<NoData>>)

HasBand(img, n) == \E i \in 1..Len(img.names) : img.names[i] = n
bandIndex(img, n) == CHOOSE i \in 1..Len(img.names) : img.names[i] = n
band(img, n) == img.px[bandIndex(img, n)]
BandSet(img) == {img.names[i] : i \in 1..Len(img.names)}

\* Image.select(names): fails when a name matches no band
select(img, sel) ==
  IF img.err \/ \E i \in 1..Len(sel) : ~HasBand(img, sel[i]) THEN ErrorImage
  ELSE Image(sel, [i \in 1..Len(sel) |-> band(img, sel[i])])

\* Image.rename(names)
rename(img, new) ==
  IF img.err \/ Len(new) # Len(img.names) THEN ErrorImage
  ELSE Image(new, img.px)

\* Image.select(names, newNames)
selectAs(img, sel, new) == rename(select(img, sel), new)

\* Image.addBands: a band whose name is taken gets the suffix _1
addBands(a, b) ==
  IF a.err \/ b.err THEN ErrorImage
  ELSE Image(a.names \o [i \in 1..Len(b.names) |->
                           IF HasBand(a, b.names[i]) THEN b.names[i] \o "_1"
                           ELSE b.names[i]],
             a.px \o b.px)

\* Image.updateMask on every band
updateMaskImage(img, m) ==
  IF img.err THEN ErrorImage
  ELSE Image(img.names, [i \in 1..Len(img.px) |-> updateMask(img.px[i], m)])

----------------------------------------------------------------------------
(* Sensor harmonizer and index engine *)
(* Reflectance is kept in units of 1/10000000: scale = 0.0000275 is 275 and *)
(* offset = -0.2 is -2000000.                                               *)

scale == 275
offset == -2000000
MaxFactor == 3

allVariables == <<"nbr", "nbr2", "ndvi", "ndmi", "ndwi", "evi", "mirbi",
                  "bai", "baims", "csi", "bsi", "msavi", "tcb", "tcg", "tcw">>

Collections == {"ls9", "ls8", "ls7_BAD", "ls7_OK", "ls5", "ls4"}
NewLayout(c) == c \in {"ls9", "ls8"}

\* bands of the archive images: Landsat 8/9 and Landsat 4/5/7 Collection 2
\* Level 2 (the thermal and radiometric-saturation bands stand for the
\* bands the script never selects)
rawNames(c) ==
  IF NewLayout(c)
  THEN <<"SR_B1", "SR_B2", "SR_B3", "SR_B4", "SR_B5", "SR_B6", "SR_B7",
         "ST_B10", "QA_PIXEL", "QA_RADSAT">>
  ELSE <<"SR_B1", "SR_B2", "SR_B3", "SR_B4", "SR_B5", "SR_B7",
         "ST_B6", "QA_PIXEL", "QA_RADSAT">>
nirBand(c) == IF NewLayout(c) THEN "SR_B5" ELSE "SR_B4"

\* the archive image: dnNir in the near-infrared band, dnOther in the others
rawImage(in) ==
  LET names == rawNames(in.collection)
  IN Image(names,
           [i \in 1..Len(names) |->
              IF names[i] = "QA_PIXEL" THEN Pix(in.qa)
              ELSE IF names[i] = nirBand(in.collection) THEN Pix(in.dnNir)
              ELSE Pix(in.dnOther)])

\* .multiply(scale).add(offset)
rescale(p) == IF IsData(p) THEN Rat(p.v * scale + offset * p.d, p.d) ELSE NoData
rescaleBands(img) ==
  IF img.err THEN ErrorImage
  ELSE Image(img.names, [i \in 1..Len(img.px) |-> rescale(img.px[i])])

convertBandsls89(img) ==
  addBands(rescaleBands(select(img, <<"SR_B2", "SR_B3", "SR_B4", "SR_B5", "SR_B6",
                                      "SR_B7">>)),
           select(img, <<"QA_PIXEL">>))

convertBandsls457(img) ==
  addBands(rescaleBands(select(img, <<"SR_B1", "SR_B2", "SR_B3", "SR_B4", "SR_B5",
                                      "SR_B7">>)),
           select(img, <<"QA_PIXEL">>))

ls89Rename(img) ==
  selectAs(img, <<"SR_B2", "SR_B3", "SR_B4", "SR_B5", "SR_B6", "SR_B7", "QA_PIXEL">>,
           <<"blue", "green", "red", "nir", "sswir", "lswir", "qa_pixel">>)

ls457RenameNewLayout(img) == ls89Rename(img)

ls457Rename(img) ==
  selectAs(img, <<"SR_B1", "SR_B2", "SR_B3", "SR_B4", "SR_B5", "SR_B7", "QA_PIXEL">>,
           <<"blue", "green", "red", "nir", "sswir", "lswir", "qa_pixel">>)

ndPixelPlain(a, b, neg) ==
  IF ~IsData(a) \/ ~IsData(b) THEN NoData
  ELSE IF a.v * b.d + b.v * a.d = 0 THEN NoData
  ELSE Rat(a.v * b.d - b.v * a.d, a.v * b.d + b.v * a.d)

\* the pixel of Image.normalizedDifference: (a - b) / (a + b).  A negative
\* input never reaches the quotient: the engine masks the pixel (neg =
\* "masked") or forces the input to 0 (neg = "zeroed"), depending on the
\* engine version; a zero sum gives no data.
ndPixel(a, b, neg) ==
  IF ~IsData(a) \/ ~IsData(b) THEN NoData
  ELSE IF (a.v < 0 \/ b.v < 0) /\ neg = "masked" THEN NoData
  ELSE LET x == IF a.v < 0 THEN Pix(0) ELSE a
           y == IF b.v < 0 THEN Pix(0) ELSE b
           num == x.v * y.d - y.v * x.d
           den == x.v * y.d + y.v * x.d
       IN IF den = 0 THEN NoData ELSE Rat(num, den)

normalizedDifference(img, a, b, neg) ==
  LET two == select(img, <<a, b>>)
  IN IF two.err THEN ErrorImage
     ELSE Image(<<"nd">>, <<ndPixel(two.px[1], two.px[2], neg)>>)

\* getEVI .. getTCW: a float band computed from the selected bands.  The
\* model keeps only whether the pixel has data (every input has), not the
\* float value.
floatIndex(img, inputs, name) ==
  LET sel == select(img, inputs)
  IN IF sel.err THEN ErrorImage
     ELSE Image(<<name>>,
                <<IF \A i \in 1..Len(sel.px) : IsData(sel.px[i]) THEN Pix(0) ELSE NoData>>)

RECURSIVE addAll(_, _)
addAll(img, list) ==
  IF list = <<>> THEN img ELSE addAll(addBands(img, Head(list)), Tail(list))

Indices(img, neg) ==
  LET nbr == rename(normalizedDifference(img, "nir", "lswir", neg), <<"nbr">>)
      nbr2 == rename(normalizedDifference(img, "sswir", "lswir", neg), <<"nbr2">>)
      ndvi == rename(normalizedDifference(img, "nir", "red", neg), <<"ndvi">>)
      ndmi == rename(normalizedDifference(img, "nir", "sswir", neg), <<"ndmi">>)
      ndwi == rename(normalizedDifference(img, "green", "nir", neg), <<"ndwi">>)
      evi == floatIndex(img, <<"nir", "red", "blue">>, "evi")
      mirbi == floatIndex(img, <<"lswir", "sswir">>, "mirbi")
      bai == floatIndex(img, <<"red", "nir">>, "bai")
      baims == floatIndex(img, <<"nir", "sswir">>, "baims")
      csi == floatIndex(img, <<"nir", "sswir">>, "csi")
      bsi == floatIndex(img, <<"red", "sswir", "blue", "nir">>, "bsi")
      msavi == floatIndex(img, <<"nir", "red">>, "msavi")
      tcb == floatIndex(img, <<"blue", "green", "red", "nir", "sswir", "lswir">>, "tcb")
      tcg == floatIndex(img, <<"blue", "green", "red", "nir", "sswir", "lswir">>, "tcg")
      tcw == floatIndex(img, <<"blue", "green", "red", "nir", "sswir", "lswir">>, "tcw")
      qa == select(img, <<"qa_pixel">>)
  IN addAll(nbr, <<nbr2, ndvi, ndmi, ndwi, evi, mirbi, bai, baims, csi, bsi,
                   msavi, tcb, tcg, tcw, qa>>)

\* lsImg.updateMask(clear).select(allVariables) of lsMaskNew / SLC_lsMask
\* (slc: the defect mask of SLC_lsMask, else that of lsMaskNew)
maskImage(img, slc) ==
  LET q == select(img, <<"qa_pixel">>)
  IN IF q.err THEN ErrorImage
     ELSE LET mask == IF slc THEN SLC_lsMaskMask(q.px[1].v)
                      ELSE lsMaskNewMask(q.px[1].v)
              clear == IF IsData(q.px[1]) THEN Pix(Not(mask)) ELSE NoData
          IN select(updateMaskImage(img, clear), allVariables)

\* the reflectance bands multiplied by a positive constant, the QA band kept
scaleReflectance(img, k) ==
  IF img.err THEN ErrorImage
  ELSE Image(img.names,
             [i \in 1..Len(img.px) |->
                IF img.names[i] = "qa_pixel" \/ ~IsData(img.px[i]) THEN img.px[i]
                ELSE Rat(img.px[i].v * k, img.px[i].d)])

\* digital values: 0, both sides of reflectance 0, reflectance 1, the top
DNVals == {0, 7272, 7273, 10909, 43636, 65535}
QAVals == {0, 8, 768, 384}

HarmStart ==
  /\ hpc = "archive"
  /\ hin \in [collection : Collections, dnNir : DNVals, dnOther : DNVals,
              qa : QAVals, neg : {"masked", "zeroed"}, factor : 2..MaxFactor]
  /\ lsImage = rawImage(hin)
  /\ scaledIdx = EmptyImage

HarmIdle ==
  /\ hpc = "off"
  /\ hin = [collection |-> "ls9", dnNir |-> 0, dnOther |-> 0, qa |-> 0,
            neg |-> "masked", factor |-> 1]
  /\ lsImage = EmptyImage
  /\ scaledIdx = EmptyImage

\* .map(convertBandsls89) / .map(convertBandsls457)
ConvertBands ==
  /\ hpc = "archive"
  /\ lsImage' = IF NewLayout(hin.collection) THEN convertBandsls89(lsImage)
                ELSE convertBandsls457(lsImage)
  /\ hpc' = "converted"
  /\ UNCHANGED <<hin, scaledIdx>>
  /\ UNCHANGED <<maskVars, fusionVars, burnVars, compVars, asmVars, runVars>>

\* .map(ls89Rename) / .map(ls457Rename)
Rename ==
  /\ hpc = "converted"
  /\ lsImage' = IF NewLayout(hin.collection) THEN ls89Rename(lsImage)
                ELSE ls457Rename(lsImage)
  /\ hpc' = "renamed"
  /\ UNCHANGED <<hin, scaledIdx>>
  /\ UNCHANGED <<maskVars, fusionVars, burnVars, compVars, asmVars, runVars>>

\* Indices applied to the renamed image with both bands of every pair
\* multiplied by hin.factor
IndicesOfScaled ==
  /\ hpc = "renamed"
  /\ scaledIdx = EmptyImage
  /\ scaledIdx' = Indices(scaleReflectance(lsImage, hin.factor), hin.neg)
  /\ UNCHANGED <<hpc, hin, lsImage>>
  /\ UNCHANGED <<maskVars, fusionVars, burnVars, compVars, asmVars, runVars>>

\* .map(Indices)
MapIndices ==
  /\ hpc = "renamed"
  /\ lsImage' = Indices(lsImage, hin.neg)
  /\ hpc' = "indices"
  /\ UNCHANGED <<hin, scaledIdx>>
  /\ UNCHANGED <<maskVars, fusionVars, burnVars, compVars, asmVars, runVars>>

\* .map(lsMaskNew), and .map(SLC_lsMask) for ls7_BAD
MapMask ==
  /\ hpc = "indices"
  /\ lsImage' = maskImage(lsImage, hin.collection = "ls7_BAD")
  /\ hpc' = "masked"
  /\ UNCHANGED <<hin, scaledIdx>>
  /\ UNCHANGED <<maskVars, fusionVars, burnVars, compVars, asmVars, runVars>>

NextHarm == ConvertBands \/ Rename \/ IndicesOfScaled \/ MapIndices \/ MapMask

----------------------------------------------------------------------------
(* Temporal compositor and deviation detector *)
(* An observation is [t, level]: its date and the level [clear, v] of its   *)
(* pixel.  The pixel is taken inside the ROI, so clip(ROI) keeps it.        *)

MaxObs == 2

\* a date as year * 10000 + month * 100 + day
Date(y, m, d) == y * 10000 + m * 100 + d
\* ee.Date(year_select + '-06-15'), ee.Date(year_select + '-09-01')
startDate(y) == Date(y, 6, 15)
endDate(y) == Date(y, 9, 1)
\* Date.advance(k, 'year')
advance(t, k) == t + k * 10000

\* the pixel of a harmonized observation: masked on every band (a quality
\* defect) or, on band i of allVariables, the value (level + i - 1) / 100
obsImage(level) ==
  Image(allVariables,
        [i \in 1..Len(allVariables) |->
           IF level.clear THEN Rat(level.v + i - 1, 100) ELSE NoData])
Obs(t, level) == [t |-> t, img |-> obsImage(level)]

\* pixel arithmetic: a no-data operand gives no-data
subtractPx(p, q) ==
  IF IsData(p) /\ IsData(q) THEN Rat(p.v * q.d - q.v * p.d, p.d * q.d) ELSE NoData
\* Image.divide returns 0 for a division by 0
dividePx(p, q) ==
  IF IsData(p) /\ IsData(q)
  THEN IF q.v = 0 THEN Pix(0) ELSE Rat(p.v * q.d, p.d * q.v)
  ELSE NoData
lessPx(p, q) == p.v * q.d < q.v * p.d

\* a binary image operation matches bands when the counts are equal or one
\* operand has a single band; otherwise the computation fails
BandsMatch(a, b) ==
  Len(a.names) = Len(b.names) \/ Len(a.names) = 1 \/ Len(b.names) = 1
operand(img, i) == IF Len(img.px) = 1 THEN img.px[1] ELSE img.px[i]
width(a, b) == IF Len(a.names) = 1 THEN Len(b.names) ELSE Len(a.names)

divide(a, b) ==
  IF a.err \/ b.err \/ ~BandsMatch(a, b) THEN ErrorImage
  ELSE Image(IF Len(a.names) = 1 THEN b.names ELSE a.names,
             [i \in 1..width(a, b) |-> dividePx(operand(a, i), operand(b, i))])

subtract(a, b) ==
  IF a.err \/ b.err \/ ~BandsMatch(a, b) THEN ErrorImage
  ELSE Image(IF Len(a.names) = 1 THEN b.names ELSE a.names,
             [i \in 1..width(a, b) |-> subtractPx(operand(a, i), operand(b, i))])

\* the observations of a collection with data on band i
withData(col, i) == {o \in col : IsData(o.img.px[i])}
below(D, i, o) == Cardinality({x \in D : lessPx(x.img.px[i], o.img.px[i])})
notAbove(D, i, o) == Cardinality({x \in D : ~lessPx(o.img.px[i], x.img.px[i])})
\* the k-th smallest value of band i
kth(D, i, k) ==
  (CHOOSE o \in D : below(D, i, o) < k /\ k <= notAbove(D, i, o)).img.px[i]

RECURSIVE sumPx(_, _)
sumPx(D, i) ==
  IF D = {} THEN Pix(0)
  ELSE LET o == CHOOSE x \in D : TRUE
           p == o.img.px[i]
           q == sumPx(D \ {o}, i)
       IN Rat(p.v * q.d + q.v * p.d, p.d * q.d)

minPx(col, i) ==
  LET D == withData(col, i) IN IF D = {} THEN NoData ELSE kth(D, i, 1)

meanPx(col, i) ==
  LET D == withData(col, i)
      t == sumPx(D, i)
  IN IF D = {} THEN NoData ELSE Rat(t.v, t.d * Cardinality(D))

\* the median of an even number of values is the mean of the middle two
medianPx(col, i) ==
  LET D == withData(col, i)
      n == Cardinality(D)
      lo == kth(D, i, (n + 1) \div 2)
      hi == kth(D, i, (n \div 2) + 1)
  IN IF D = {} THEN NoData ELSE Rat(lo.v * hi.d + hi.v * lo.d, 2 * lo.d * hi.d)

\* the reducers need the same bands on every image; an empty collection
\* reduces to an image without bands
Homogeneous(col) ==
  /\ \A o \in col : ~o.img.err
  /\ \A o1, o2 \in col : o1.img.names = o2.img.names
bandsOf(col) == (CHOOSE o \in col : TRUE).img.names
NoBands == Image(<<>>, <<>>)

median(col) ==
  IF col = {} THEN NoBands
  ELSE IF ~Homogeneous(col) THEN ErrorImage
  ELSE Image(bandsOf(col), [i \in 1..Len(bandsOf(col)) |-> medianPx(col, i)])

mean(col) ==
  IF col = {} THEN NoBands
  ELSE IF ~Homogeneous(col) THEN ErrorImage
  ELSE Image(bandsOf(col), [i \in 1..Len(bandsOf(col)) |-> meanPx(col, i)])

min(col) ==
  IF col = {} THEN NoBands
  ELSE IF ~Homogeneous(col) THEN ErrorImage
  ELSE Image(bandsOf(col), [i \in 1..Len(bandsOf(col)) |-> minPx(col, i)])

filterDateInclusive(col, start, end) == {o \in col : start <= o.t /\ o.t <= end}

\* ImageCollection.filterDate(start, end): start <= t < end
filterDate(col, start, end) == {o \in col : start <= o.t /\ o.t < end}

\* ee.Image.cat of 15 masked float images, renamed to allVariables; in a
\* collection it carries no date
transparentImage == Image(allVariables, [i \in 1..Len(allVariables) |-> NoData])
transparentCol == {[t |-> 0, img |-> transparentImage]}

preVariables == [i \in 1..Len(allVariables) |-> "pre_" \o allVariables[i]]
postVariables == [i \in 1..Len(allVariables) |-> "post_" \o allVariables[i]]

\* the images of the merged collection
images(col) == {Obs(o.t, o.level) : o \in col}

filledNoBackfill(col, start, end, names) ==
  selectAs(median(filterDate(images(col), start, end)), allVariables, names)

\* pre_filled / post_filled: the window merged with transparentImage, the
\* median, the bands renamed
filled(col, start, end, names) ==
  selectAs(median(filterDate(images(col), start, end) \cup transparentCol),
           allVariables, names)

\* PREmedian: the three years before the analysis year
PREmedian(col, y) ==
  LET Tm1 == filterDate(images(col), advance(startDate(y), -1), advance(endDate(y), -1))
      Tm2 == filterDate(images(col), advance(startDate(y), -2), advance(endDate(y), -2))
      Tm3 == filterDate(images(col), advance(startDate(y), -3), advance(endDate(y), -3))
  IN median(Tm1 \cup (Tm2 \cup Tm3))

\* imgCol.map(IMG.divide(PREmedian)) and imgCol.map(IMG.subtract(PREmedian)),
\* the date copied
TSdevDiv(col, pre) == {[t |-> o.t, img |-> divide(o.img, pre)] : o \in images(col)}
TSdevSub(col, pre) == {[t |-> o.t, img |-> subtract(o.img, pre)] : o \in images(col)}

\* ee.ImageCollection([a, b]).min()
minOfTwo(a, b) == min({[t |-> 1, img |-> a], [t |-> 2, img |-> b]})

windowA(col, y) == filterDate(col, advance(startDate(y), 1), advance(endDate(y), 1))
windowB(col, y) == filterDate(col, advance(startDate(y), 0), advance(endDate(y), 0))

divCol(col, y, pre) ==
  minOfTwo(median(windowA(TSdevDiv(col, pre), y)), median(windowB(TSdevDiv(col, pre), y)))
subCol(col, y, pre) ==
  minOfTwo(mean(windowA(TSdevSub(col, pre), y)), mean(windowB(TSdevSub(col, pre), y)))
meanCol(col, y) ==
  minOfTwo(min(windowA(images(col), y)), min(windowB(images(col), y)))

\* analysis years, observation dates around them, pixel levels
Years == {1985, 2023}
\* the first and last day of the window, and the days just outside it
InsideDays == {<<6, 15>>, <<8, 31>>}
OutsideDays == {<<6, 14>>, <<9, 1>>}
Levels == {[clear |-> FALSE, v |-> 0], [clear |-> TRUE, v |-> -20],
           [clear |-> TRUE, v |-> 30]}
Bright == [clear |-> TRUE, v |-> 30]
\* every level inside the windows of the years y-3 .. y+1, one clear
\* observation on the days just outside them and in the years y-4 and y+2
ObsUniverse(y) ==
  {[t |-> Date(y + k, md[1], md[2]), level |-> l] :
     k \in -3..1, md \in InsideDays, l \in Levels}
  \cup {[t |-> Date(y + k, md[1], md[2]), level |-> Bright] :
          k \in -3..1, md \in OutsideDays}
  \cup {[t |-> Date(y + k, 6, 15), level |-> Bright] : k \in {-4, 2}}

RECURSIVE SubsetsUpTo(_, _)
SubsetsUpTo(U, k) ==
  IF k = 0 THEN {{}}
  ELSE LET P == SubsetsUpTo(U, k - 1) IN P \cup {c \cup {o} : c \in P, o \in U}

NoComposite == [pre_filled |-> NoBands, post_filled |-> NoBands, fireIndices |-> NoBands]
NoDeviation == [PREmedian |-> NoBands, divCol |-> NoBands, subCol |-> NoBands,
                meanCol |-> NoBands]
NoRuleBands == [pre_nbr |-> NoBands, post_nbr |-> NoBands, div_nbr2 |-> NoBands,
                sub_nbr2 |-> NoBands, min_nbr |-> NoBands]

CompStart ==
  /\ cpc = "start"
  /\ year_select \in Years
  /\ imgCol \in SubsetsUpTo(ObsUniverse(year_select), MaxObs)
  /\ composite = NoComposite
  /\ deviation = NoDeviation
  /\ ruleBands = NoRuleBands

CompIdle ==
  /\ cpc = "off"
  /\ year_select = 2023
  /\ imgCol = {}
  /\ composite = NoComposite
  /\ deviation = NoDeviation
  /\ ruleBands = NoRuleBands

\* Pre-Imagery, Post-Imagery, fireIndices
Composite ==
  /\ cpc = "start"
  /\ LET pre == filled(imgCol, advance(startDate(year_select), -1),
                       advance(endDate(year_select), -1), preVariables)
         post == filled(imgCol, advance(startDate(year_select), 1),
                        advance(endDate(year_select), 1), postVariables)
     IN composite' = [pre_filled |-> pre, post_filled |-> post,
                      fireIndices |-> addBands(pre, post)]
  /\ cpc' = "composites"
  /\ UNCHANGED <<year_select, imgCol, deviation, ruleBands>>
  /\ UNCHANGED <<maskVars, fusionVars, burnVars, harmVars, asmVars, runVars>>

\* get median of TimeSeries over ROI (1-3 years prior)
Baseline ==
  /\ cpc = "composites"
  /\ deviation' = [deviation EXCEPT !.PREmedian = PREmedian(imgCol, year_select)]
  /\ cpc' = "baseline"
  /\ UNCHANGED <<year_select, imgCol, composite, ruleBands>>
  /\ UNCHANGED <<maskVars, fusionVars, burnVars, harmVars, asmVars, runVars>>

\* divCol, subCol, meanCol
Deviations ==
  /\ cpc = "baseline"
  /\ deviation' = [deviation EXCEPT
                     !.divCol = divCol(imgCol, year_select, deviation.PREmedian),
                     !.subCol = subCol(imgCol, year_select, deviation.PREmedian),
                     !.meanCol = meanCol(imgCol, year_select)]
  /\ cpc' = "deviations"
  /\ UNCHANGED <<year_select, imgCol, composite, ruleBands>>
  /\ UNCHANGED <<maskVars, fusionVars, burnVars, harmVars, asmVars, runVars>>

\* the bands read downstream: b('pre_nbr'), b('post_nbr') of dnbr, and
\* select(['nbr2']), select(['nbr2']), select(['nbr']) of the rules
SelectRuleBands ==
  /\ cpc = "deviations"
  /\ ruleBands' = [pre_nbr |-> select(composite.fireIndices, <<"pre_nbr">>),
                   post_nbr |-> select(composite.fireIndices, <<"post_nbr">>),
                   div_nbr2 |-> select(deviation.divCol, <<"nbr2">>),
                   sub_nbr2 |-> select(deviation.subCol, <<"nbr2">>),
                   min_nbr |-> select(deviation.meanCol, <<"nbr">>)]
  /\ cpc' = "rules"
  /\ UNCHANGED <<year_select, imgCol, composite, deviation>>
  /\ UNCHANGED <<maskVars, fusionVars, burnVars, harmVars, asmVars, runVars>>

NextComp == Composite \/ Baseline \/ Deviations \/ SelectRuleBands

----------------------------------------------------------------------------
(* Assembly of the merged Landsat collection *)
(* An acquisition is [sensor, t]; a formatted observation also names the    *)
(* functions mapped over it.                                                *)

Sensors == {"LT04", "LT05", "LE07", "LC08", "LC09"}
\* acquisition dates on both sides of the three date-filter limits
AcqDates == {Date(1999, 1, 1), Date(2003, 5, 31), Date(2003, 6, 1),
             Date(2032, 12, 31), Date(2033, 1, 1)}
Acquisitions == [sensor : Sensors, t : AcqDates]
MaxAcq == 2

ofSensor(cat, s) == {a \in cat : a.sensor = s}

ls7SR_OKInclusive(cat) ==
  filterDateInclusive(ofSensor(cat, "LE07"), Date(1999, 1, 1), Date(2003, 6, 1))

ls4SR(cat) == ofSensor(cat, "LT04")
ls5SR(cat) == ofSensor(cat, "LT05")
ls7SR_OK(cat) == filterDate(ofSensor(cat, "LE07"), Date(1999, 1, 1), Date(2003, 6, 1))
ls7SR_BAD(cat) == filterDate(ofSensor(cat, "LE07"), Date(2003, 6, 1), Date(2033, 1, 1))
ls8SR(cat) == ofSensor(cat, "LC08")
ls9SR(cat) == ofSensor(cat, "LC09")

\* col.map(convert).map(rename).map(Indices).map(mask)
mapChain(col, convertFn, renameFn, maskFn) ==
  {[sensor |-> a.sensor, t |-> a.t, convert |-> convertFn, rename |-> renameFn,
    indices |-> "Indices", mask |-> maskFn] : a \in col}

NoCols == [c \in Collections |-> {}]

AsmStart ==
  /\ apc = "catalog"
  /\ catalog \in SubsetsUpTo(Acquisitions, MaxAcq)
  /\ srCols = NoCols
  /\ fmtCols = NoCols
  /\ lsCol = {}

AsmIdle ==
  /\ apc = "off"
  /\ catalog = {}
  /\ srCols = NoCols
  /\ fmtCols = NoCols
  /\ lsCol = {}

\* Landsat 4,5,7,8,9 Surface Reflectance Collection 2 (Tier 1)
FilterCollections ==
  /\ apc = "catalog"
  /\ srCols' = [c \in Collections |->
                  CASE c = "ls4" -> ls4SR(catalog)
                    [] c = "ls5" -> ls5SR(catalog)
                    [] c = "ls7_OK" -> ls7SR_OK(catalog)
                    [] c = "ls7_BAD" -> ls7SR_BAD(catalog)
                    [] c = "ls8" -> ls8SR(catalog)
                    [] c = "ls9" -> ls9SR(catalog)]
  /\ apc' = "filtered"
  /\ UNCHANGED <<catalog, fmtCols, lsCol>>
  /\ UNCHANGED <<maskVars, fusionVars, burnVars, harmVars, compVars, runVars>>

\* Map through all formatting functions
MapFormat ==
  /\ apc = "filtered"
  /\ fmtCols' = [c \in Collections |->
                   mapChain(srCols[c],
                            IF NewLayout(c) THEN "convertBandsls89" ELSE "convertBandsls457",
                            IF NewLayout(c) THEN "ls89Rename" ELSE "ls457Rename",
                            IF c = "ls7_BAD" THEN "SLC_lsMask" ELSE "lsMaskNew")]
  /\ apc' = "mapped"
  /\ UNCHANGED <<catalog, srCols, lsCol>>
  /\ UNCHANGED <<maskVars, fusionVars, burnVars, harmVars, compVars, runVars>>

\* Merge Landsat Collections
Merge ==
  /\ apc = "mapped"
  /\ lsCol' = fmtCols["ls9"] \cup (fmtCols["ls8"] \cup (fmtCols["ls7_BAD"] \cup
                 (fmtCols["ls7_OK"] \cup (fmtCols["ls5"] \cup fmtCols["ls4"]))))
  /\ apc' = "merged"
  /\ UNCHANGED <<catalog, srCols, fmtCols>>
  /\ UNCHANGED <<maskVars, fusionVars, burnVars, harmVars, compVars, runVars>>

NextAsm == FilterCollections \/ MapFormat \/ Merge

----------------------------------------------------------------------------
(* The RUN button: widgets, drawing layer, click handler, exports *)

MaxRuns == 2
MaxGeoms == 2
GeomIds == {1, 2}

\* for (var i = 1; i < 24; i++) over grid.toList(24)
LoopFirst == 1
GridTiles == 24
Res == 60
pxFilter == 0

defaultAsset == "users/mghethcoat/NRCan/northernEcozones_trueTundraSUB"
NoROI == [asset |-> "", geoms |-> <<>>]

trainOnce(n) == IF n = 0 THEN 1 ELSE n

\* smileRandomForest(...).train(data, 'BURNT', predictorVariables): one more
\* training
train(n) == n + 1

\* the classifier of a run: fixed hyperparameters, the training that made it
classifierOf(n) ==
  [numberOfTrees |-> 100, minLeafPopulation |-> 1, maxNodes |-> 560, seed |-> 1,
   training |-> n]

RECURSIVE flatten(_)
flatten(layers) ==
  IF layers = <<>> THEN <<>> ELSE Head(layers) \o flatten(Tail(layers))

\* Map.drawingTools().toFeatureCollection()
toFeatureCollection(layers) == [asset |-> "", geoms |-> flatten(layers)]

removeNone(geoms) == geoms

\* geometries().remove(geometries().get(0)); nothing to remove from an
\* empty list
removeFirst(geoms) == IF geoms = <<>> THEN geoms ELSE Tail(geoms)

\* ROI.geometry().coveringGrid('EPSG:4326', 1000000): the cells, numbered
\* from 0; the default region is covered by 24 cells, the cells of a drawn
\* region are not read
coveringGrid(ROI) ==
  IF ROI.asset = defaultAsset THEN [k \in 1..GridTiles |-> k - 1] ELSE <<>>

\* grid.toList(24)
toList(grid, n) == SubSeq(grid, 1, IF Len(grid) < n THEN Len(grid) ELSE n)

\* ee.Number(i).format('%02d')
format02d(i) == IF i < 10 THEN "0" \o ToString(i) ELSE ToString(i)

tileDescription(y, i) ==
  "candidateFires__" \o ToString(y) \o "__ROIsub_" \o format02d(i) \o "_"
    \o ToString(pxFilter) \o "px" \o ToString(Res) \o "m"

drawnDescription(y) ==
  "candidateFires__" \o ToString(y) \o "__" \o "drawROI" \o "_"
    \o ToString(pxFilter) \o "px" \o ToString(Res) \o "m"

\* the tasks of the loop from i on: tile grid.toList(24).get(i)
RECURSIVE tileTasks(_, _, _, _)
tileTasks(i, grid, y, ROI) ==
  IF i < 24
  THEN <<[description |-> tileDescription(y, i), year_select |-> y, ROI |-> ROI,
          tile |-> toList(grid, 24)[i + 1]]>> \o tileTasks(i + 1, grid, y, ROI)
  ELSE <<>>

branchAlwaysExport(Export_select, ROI_select) ==
  IF ~ROI_select /\ Export_select THEN "tiles" ELSE "drawn"

\* the if / else if chain on Export_select and ROI_select
branch(Export_select, ROI_select) ==
  IF Export_select /\ ~ROI_select THEN "tiles"
  ELSE IF Export_select /\ ROI_select THEN "drawn"
  ELSE "display"

NoRun == [ROI_select |-> FALSE, Export_select |-> FALSE, year_select |-> 0,
          ROI |-> NoROI, grid |-> <<>>, classifier |-> classifierOf(0),
          quiet |-> FALSE, before |-> <<>>, after |-> <<>>, issued |-> <<>>,
          abandoned |-> FALSE]

RunStart ==
  /\ rpc = "idle"
  /\ year_selection = 2023
  /\ ROI_selection = TRUE
  /\ Download_selection = FALSE
  /\ drawLayers = <<>>
  /\ run = NoRun
  /\ trainings = 0
  /\ tasks = <<>>
  /\ mapLayers = <<>>
  /\ log = <<>>
  /\ touched = FALSE

RunIdle ==
  /\ rpc = "off"
  /\ year_selection = 2023
  /\ ROI_selection = TRUE
  /\ Download_selection = FALSE
  /\ drawLayers = <<>>
  /\ run = NoRun
  /\ trainings = 0
  /\ tasks = <<>>
  /\ mapLayers = <<>>
  /\ log = <<>>
  /\ touched = FALSE

otherVars == <<maskVars, fusionVars, burnVars, harmVars, compVars, asmVars>>

\* the user moves the year slider (the widgets are followed up to the last
\* run)
SetYear ==
  /\ rpc = "idle"
  /\ Len(log) < MaxRuns
  /\ \E y \in Years : year_selection' = y /\ y # year_selection
  /\ touched' = TRUE
  /\ UNCHANGED <<rpc, ROI_selection, Download_selection, drawLayers, run,
                 trainings, tasks, mapLayers, log>>
  /\ UNCHANGED otherVars

ToggleROI ==
  /\ rpc = "idle"
  /\ Len(log) < MaxRuns
  /\ ROI_selection' = ~ROI_selection
  /\ touched' = TRUE
  /\ UNCHANGED <<rpc, year_selection, Download_selection, drawLayers, run,
                 trainings, tasks, mapLayers, log>>
  /\ UNCHANGED otherVars

ToggleDownload ==
  /\ rpc = "idle"
  /\ Len(log) < MaxRuns
  /\ Download_selection' = ~Download_selection
  /\ touched' = TRUE
  /\ UNCHANGED <<rpc, year_selection, ROI_selection, drawLayers, run,
                 trainings, tasks, mapLayers, log>>
  /\ UNCHANGED otherVars

\* the user draws a rectangle: the first one creates the geometry layer
Draw ==
  /\ rpc = "idle"
  /\ Len(log) < MaxRuns
  /\ Len(flatten(drawLayers)) < MaxGeoms
  /\ \E g \in GeomIds :
       drawLayers' = IF drawLayers = <<>> THEN << <<g>> >>
                     ELSE [drawLayers EXCEPT ![1] = Append(@, g)]
  /\ touched' = TRUE
  /\ UNCHANGED <<rpc, year_selection, ROI_selection, Download_selection, run,
                 trainings, tasks, mapLayers, log>>
  /\ UNCHANGED otherVars

\* runButton.onClick: Map.clear(), the two checkboxes read, the classifier
\* trained
Click ==
  /\ rpc = "idle"
  /\ Len(log) < MaxRuns
  /\ mapLayers' = <<>>
  /\ trainings' = train(trainings)
  /\ run' = [NoRun EXCEPT !.ROI_select = ROI_selection,
                          !.Export_select = Download_selection,
                          !.classifier = classifierOf(train(trainings)),
                          !.quiet = ~touched,
                          !.before = drawLayers]
  /\ touched' = FALSE
  /\ rpc' = "roi"
  /\ UNCHANGED <<year_selection, ROI_selection, Download_selection, drawLayers,
                 tasks, log>>
  /\ UNCHANGED otherVars

\* ROI_select === true: the drawn features, then the first geometry of
\* layer 0 removed; without a geometry layer myLayers.get(0) is undefined
\* and the handler stops on the TypeError
SelectDrawnROI ==
  /\ rpc = "roi"
  /\ run.ROI_select
  /\ IF drawLayers = <<>>
     THEN /\ run' = [run EXCEPT !.ROI = toFeatureCollection(drawLayers),
                                !.abandoned = TRUE,
                                !.after = drawLayers]
          /\ log' = Append(log, run')
          /\ rpc' = "idle"
          /\ UNCHANGED drawLayers
     ELSE /\ run' = [run EXCEPT !.ROI = toFeatureCollection(drawLayers)]
          /\ drawLayers' = [drawLayers EXCEPT ![1] = removeFirst(@)]
          /\ rpc' = "pipeline"
          /\ UNCHANGED log
  /\ UNCHANGED <<year_selection, ROI_selection, Download_selection, trainings,
                 tasks, mapLayers, touched>>
  /\ UNCHANGED otherVars

\* ROI_select === false: the default region
SelectDefaultROI ==
  /\ rpc = "roi"
  /\ ~run.ROI_select
  /\ run' = [run EXCEPT !.ROI = [asset |-> defaultAsset, geoms |-> <<>>]]
  /\ rpc' = "pipeline"
  /\ UNCHANGED <<year_selection, ROI_selection, Download_selection, drawLayers,
                 trainings, tasks, mapLayers, log, touched>>
  /\ UNCHANGED otherVars

\* the year read from the slider, the ROI layer, the image pipeline, the grid
Pipeline ==
  /\ rpc = "pipeline"
  /\ run' = [run EXCEPT !.year_select = year_selection,
                        !.grid = coveringGrid(run.ROI)]
  /\ mapLayers' = Append(mapLayers, "ROI")
  /\ rpc' = "branch"
  /\ UNCHANGED <<year_selection, ROI_selection, Download_selection, drawLayers,
                 trainings, tasks, log, touched>>
  /\ UNCHANGED otherVars

\* Export_select === true && ROI_select === false: the loop over the tiles
ExportTiles ==
  /\ rpc = "branch"
  /\ branch(run.Export_select, run.ROI_select) = "tiles"
  /\ mapLayers' = Append(mapLayers, "RFprediction")
  /\ run' = [run EXCEPT !.issued = tileTasks(LoopFirst, run.grid, run.year_select, run.ROI),
                        !.after = drawLayers]
  /\ tasks' = tasks \o run'.issued
  /\ log' = Append(log, run')
  /\ rpc' = "idle"
  /\ UNCHANGED <<year_selection, ROI_selection, Download_selection, drawLayers,
                 trainings, touched>>
  /\ UNCHANGED otherVars

\* Export_select === true && ROI_select === true: one export of the ROI
ExportDrawn ==
  /\ rpc = "branch"
  /\ branch(run.Export_select, run.ROI_select) = "drawn"
  /\ mapLayers' = Append(mapLayers, "RFprediction")
  /\ run' = [run EXCEPT !.issued =
                <<[description |-> drawnDescription(run.year_select),
                   year_select |-> run.year_select, ROI |-> run.ROI, tile |-> -1]>>,
                        !.after = drawLayers]
  /\ tasks' = tasks \o run'.issued
  /\ log' = Append(log, run')
  /\ rpc' = "idle"
  /\ UNCHANGED <<year_selection, ROI_selection, Download_selection, drawLayers,
                 trainings, touched>>
  /\ UNCHANGED otherVars

\* Export_select === false: the probability layer only
DisplayOnly ==
  /\ rpc = "branch"
  /\ branch(run.Export_select, run.ROI_select) = "display"
  /\ mapLayers' = Append(mapLayers, "RFprediction")
  /\ run' = [run EXCEPT !.after = drawLayers]
  /\ log' = Append(log, run')
  /\ rpc' = "idle"
  /\ UNCHANGED <<year_selection, ROI_selection, Download_selection, drawLayers,
                 trainings, tasks, touched>>
  /\ UNCHANGED otherVars

Next ==
  \/ SetYear \/ ToggleROI \/ ToggleDownload \/ Draw
  \/ Click \/ SelectDrawnROI \/ SelectDefaultROI \/ Pipeline
  \/ ExportTiles \/ ExportDrawn \/ DisplayOnly

----------------------------------------------------------------------------
(* Specifications *)

InitMask == MaskStart /\ FusionIdle /\ BurnIdle /\ HarmIdle /\ CompIdle /\ AsmIdle /\ RunIdle
SpecMask == InitMask /\ [][NextMask]_vars

InitFusion == FusionStart /\ MaskIdle /\ BurnIdle /\ HarmIdle /\ CompIdle /\ AsmIdle /\ RunIdle
SpecFusion == InitFusion /\ [][NextFusion]_vars

InitBurn == BurnStart /\ MaskIdle /\ FusionIdle /\ HarmIdle /\ CompIdle /\ AsmIdle /\ RunIdle
SpecBurn == InitBurn /\ [][NextBurn]_vars

InitHarm == HarmStart /\ MaskIdle /\ FusionIdle /\ BurnIdle /\ CompIdle /\ AsmIdle /\ RunIdle
SpecHarm == InitHarm /\ [][NextHarm]_vars

InitComp == CompStart /\ MaskIdle /\ FusionIdle /\ BurnIdle /\ HarmIdle /\ AsmIdle /\ RunIdle
SpecComp == InitComp /\ [][NextComp]_vars

InitAsm == AsmStart /\ MaskIdle /\ FusionIdle /\ BurnIdle /\ HarmIdle /\ CompIdle /\ RunIdle
SpecAsm == InitAsm /\ [][NextAsm]_vars

Init ==
  RunStart /\ MaskIdle /\ FusionIdle /\ BurnIdle /\ HarmIdle /\ CompIdle /\ AsmIdle
Spec == Init /\ [][Next]_vars

----------------------------------------------------------------------------
(* Rule fusion: properties *)

FusionInside == IF fin.branch = "tiled" THEN fin.inTile ELSE fin.inROI
FusionLand == fin.polygons > 0 /\ fin.inROI
FusionNotWater == fin.max_extent = Pix(0) /\ fin.inROI
FusionRules ==
  /\ IsData(fin.probability) /\ fin.probability.v > 900
  /\ IsData(fin.div_nbr2) /\ fin.div_nbr2.v < 500
  /\ IsData(fin.sub_nbr2) /\ fin.sub_nbr2.v < -100
  /\ IsData(fin.min_nbr) /\ fin.min_nbr.v < 0

\* C1: the candidate fire mask is true at a pixel exactly when all four
\* rules hold with strict comparisons on data and the pixel is land and not
\* permanent water (inside the geometry the branch clips to); with any rule
\* false, any input no-data, or water or ocean, the pixel is not true: it
\* is no-data.
C1_CandidateMask ==
  fpc = "fused" =>
    /\ (candidate = Pix(1)) <=>
         (FusionRules /\ FusionLand /\ FusionNotWater /\ FusionInside)
    /\ candidate \in {Pix(1), NoData}

C1_Witness ==
  /\ fpc = "fused"
  /\ candidate = Pix(1)
  /\ fin.probability = Pix(901)
  /\ fin.branch = "tiled"

\* the 15 other rows of the truth table, on land: not true
C1_WitnessFalseRow ==
  /\ fpc = "fused"
  /\ candidate = NoData
  /\ fin.probability = Pix(900)
  /\ fin.div_nbr2 = Pix(499) /\ fin.sub_nbr2 = Pix(-101) /\ fin.min_nbr = Pix(-1)
  /\ FusionLand /\ FusionNotWater /\ FusionInside

----------------------------------------------------------------------------
(* Quality masks: properties *)

\* test of one bit, independent of bitwiseAnd
Bit(q, k) == (q \div Pow2(k)) % 2

DefectBitSet(q) == \E k \in {1, 3, 4, 5, 7} : Bit(q, k) = 1

\* the 2-bit cloud-confidence field held in bits 8-9
ConfidenceField(q) == (q \div 256) % 4

\* C3: lsMaskNew turns the pixel into no-data exactly when one of the QA
\* bits 1, 3, 4, 5, 7 is set; otherwise the pixel keeps its value (a zero
\* stays a zero), whatever the other bits of the QA value are.
C3_StandardMask ==
  mpc = "lsMaskNew" =>
    /\ (masked = NoData) <=> DefectBitSet(quality)
    /\ ~DefectBitSet(quality) => masked = lsImg

C3_Witness ==
  /\ mpc = "lsMaskNew"
  /\ quality = 128 + 512
  /\ lsImg = Pix(0)
  /\ masked = NoData

\* C2: SLC_lsMask excludes the pixel exactly when lsMaskNew would exclude it
\* or the confidence field of bits 8-9 is 2 or 3.
C2_DegradedMask ==
  mpc = "SLC_lsMask" =>
    ((masked = NoData) <=>
       (lsMaskNewMask(quality) # 0 \/ ConfidenceField(quality) >= 2))

C18_WitnessBoth ==
  /\ mpc = "SLC_lsMask"
  /\ quality = 384
  /\ cloudConfidence(quality) = 3
  /\ masked = NoData

----------------------------------------------------------------------------
(* Burn metrics: properties *)

HasPreNbr3 == bpc \in {"pre_nbr3", "rdnbr"} /\ IsData(fireIndices.pre_nbr)

\* C6 as claimed: the radicand is abs(v), v = 0.001 if pre_nbr < 0.001 and
\* v = pre_nbr otherwise, for every pre_nbr.
C6_SignedClamp ==
  HasPreNbr3 =>
    burnIndices.pre_nbr3 =
      Pix(Abs(IF fireIndices.pre_nbr.v < 10 THEN 10 ELSE fireIndices.pre_nbr.v))

\* C6 amended: the radicand is 0.001 when -0.001 < pre_nbr < 0.001 and the
\* magnitude of pre_nbr otherwise; for pre_nbr >= 0 this is the claimed
\* formula, for pre_nbr <= -0.001 it is -pre_nbr and not 0.001.
C6_MagnitudeClamp ==
  HasPreNbr3 =>
    LET p == fireIndices.pre_nbr.v
    IN /\ burnIndices.pre_nbr3 =
            Pix(IF p > -10 /\ p < 10 THEN 10 ELSE IF p < 0 THEN -p ELSE p)
       /\ p >= 0 => burnIndices.pre_nbr3 = Pix(IF p < 10 THEN 10 ELSE p)

C6_Witness ==
  /\ bpc = "pre_nbr3"
  /\ fireIndices.pre_nbr = Pix(-5000)
  /\ burnIndices.pre_nbr3 = Pix(5000)

\* C7: the radicand of pre_nbr3 is at least 0.001 for every pre_nbr, so the
\* denominator of rdnbr is not zero and rdnbr has a value wherever dnbr has
\* one; pre_nbr = 0.0005 and pre_nbr = 0 give the radicand 0.001.
C7_ClampedDenominator ==
  /\ HasPreNbr3 =>
       /\ IsData(burnIndices.pre_nbr3)
       /\ burnIndices.pre_nbr3.v >= 10
       /\ fireIndices.pre_nbr.v \in {0, 5} => burnIndices.pre_nbr3 = Pix(10)
  /\ (bpc = "rdnbr" /\ IsData(fireIndices.pre_nbr) /\ IsData(fireIndices.post_nbr)) =>
       IsData(burnIndices.rdnbr)

C7_Witness ==
  /\ bpc = "rdnbr"
  /\ fireIndices.pre_nbr = Pix(0)
  /\ fireIndices.post_nbr = Pix(-1000)
  /\ burnIndices.pre_nbr3 = Pix(10)
  /\ burnIndices.rdnbr = Pix(3162)

C7_WitnessSmall ==
  /\ bpc = "pre_nbr3"
  /\ fireIndices.pre_nbr = Pix(5)
  /\ burnIndices.pre_nbr3 = Pix(10)

\* quotient a / b truncated toward zero, b > 0
Truncated(a, b) == IF a >= 0 THEN a \div b ELSE -((-a) \div b)

\* C8: dnbr = int((pre_nbr - post_nbr) * 1000); rbr = int(dnbr / (pre_nbr +
\* 1.001)) from the truncated dnbr; rdnbr = int(dnbr / pre_nbr3) with the
\* float pre_nbr3; pre_nbr = 0.6, post_nbr = -0.1 gives 700, 437, 903, and
\* pre_nbr = -0.0005, post_nbr = 0.3 gives -300, -299, -9486 (truncation
\* toward zero at each step).
C8_BurnMetricOrder ==
  (bpc = "rdnbr" /\ IsData(fireIndices.pre_nbr) /\ IsData(fireIndices.post_nbr)) =>
    LET pre == fireIndices.pre_nbr.v
        post == fireIndices.post_nbr.v
        d == burnIndices.dnbr.v
        k == burnIndices.rdnbr.v
        r == burnIndices.pre_nbr3.v
    IN /\ burnIndices.dnbr = Pix(Truncated(pre - post, 10))
       /\ burnIndices.rbr = Pix(Truncated(d * 10000, pre + 10010))
       /\ IsData(burnIndices.rdnbr)
       /\ (d >= 0) = (k >= 0) \/ k = 0
       /\ LET g == GCD(10000, r)
          IN /\ k * k * (r \div g) <= (10000 \div g) * d * d
             /\ (Abs(k) + 1) * (Abs(k) + 1) * (r \div g) > (10000 \div g) * d * d
       /\ (pre = 6000 /\ post = -1000) => (d = 700 /\ burnIndices.rbr.v = 437 /\ k = 903)
       /\ (pre = -5 /\ post = 3000) => (d = -300 /\ burnIndices.rbr.v = -299 /\ k = -9486)

C8_Witness ==
  /\ bpc = "rdnbr"
  /\ fireIndices.pre_nbr = Pix(6000)
  /\ fireIndices.post_nbr = Pix(-1000)
  /\ burnIndices.dnbr = Pix(700)
  /\ burnIndices.rbr = Pix(437)
  /\ burnIndices.rdnbr = Pix(903)

----------------------------------------------------------------------------
(* Harmonizer and index engine: properties *)

\* C10 as claimed: every image handed to Indices has exactly the bands
\* blue, green, red, nir, sswir, lswir, qa.
C10_CanonicalBandsQa ==
  hpc = "renamed" =>
    /\ ~lsImage.err
    /\ BandSet(lsImage) = {"blue", "green", "red", "nir", "sswir", "lswir", "qa"}

\* C10 amended: for each of the six collections the image handed to Indices
\* has exactly the seven bands blue, green, red, nir, sswir, lswir, qa_pixel,
\* in this order, whichever layout was the source.
C10_CanonicalBands ==
  hpc = "renamed" =>
    /\ ~lsImage.err
    /\ lsImage.names = <<"blue", "green", "red", "nir", "sswir", "lswir", "qa_pixel">>

C10_Witness ==
  /\ hpc = "renamed"
  /\ hin.collection = "ls5"
  /\ ~lsImage.err
  /\ Len(lsImage.names) = 7
  /\ band(lsImage, "nir") = Pix(hin.dnNir * 275 - 2000000)

NDNames == {"nbr", "nbr2", "ndvi", "ndmi", "ndwi"}
\* reflectance of a digital value, in 1/10000000
Refl(dn) == 275 * dn - 2000000
\* the two input bands of each index, as digital values of the archive image
NDInputs(n) ==
  CASE n = "nbr" -> <<hin.dnNir, hin.dnOther>>
    [] n = "nbr2" -> <<hin.dnOther, hin.dnOther>>
    [] n = "ndvi" -> <<hin.dnNir, hin.dnOther>>
    [] n = "ndmi" -> <<hin.dnNir, hin.dnOther>>
    [] n = "ndwi" -> <<hin.dnOther, hin.dnNir>>
IndicesDone == hpc = "indices" /\ scaledIdx # EmptyImage

\* C9 as claimed: for every pair of rescaled band values with a non-zero
\* sum, each normalized-difference index is the value (A - B) / (A + B), it
\* lies in [-1, 1] and it is the same for the scaled pair.
C9_FormulaInRange ==
  IndicesDone =>
    \A n \in NDNames :
      LET a == Refl(NDInputs(n)[1])
          b == Refl(NDInputs(n)[2])
          p == band(lsImage, n)
      IN a + b # 0 =>
           /\ IsData(p)
           /\ p = Rat(a - b, a + b)
           /\ -p.d <= p.v /\ p.v <= p.d
           /\ band(scaledIdx, n) = p

\* C9 amended: wherever a normalized-difference index has a value it lies
\* in [-1, 1]; for two non-negative band values with a non-zero sum it has
\* the value (A - B) / (A + B); a pair with a negative band value never
\* gives (A - B) / (A + B) outside [-1, 1]; and the index (value or no-data)
\* is unchanged when both bands are multiplied by the same positive constant.
C9_NormalizedDifference ==
  IndicesDone =>
    /\ ~lsImage.err /\ ~scaledIdx.err
    /\ \A n \in NDNames :
         LET a == Refl(NDInputs(n)[1])
             b == Refl(NDInputs(n)[2])
             p == band(lsImage, n)
         IN /\ IsData(p) => (-p.d <= p.v /\ p.v <= p.d /\ p.d > 0)
            /\ (a >= 0 /\ b >= 0 /\ a + b # 0) =>
                 p = Rat(a - b, a + b)
            /\ band(scaledIdx, n) = p

C9_Witness ==
  /\ IndicesDone
  /\ hin.dnNir = 43636 /\ hin.dnOther = 10909 /\ hin.factor = 3
  /\ band(lsImage, "nbr") = Rat(9999900 - 999975, 9999900 + 999975)
  /\ band(scaledIdx, "nbr") = band(lsImage, "nbr")
  /\ band(lsImage, "nbr") # Pix(0)

\* a negative reflectance: the quotient (A - B) / (A + B) would be below -1
C9_WitnessNegative ==
  /\ IndicesDone
  /\ hin.dnNir = 0 /\ hin.dnOther = 43636
  /\ band(lsImage, "nbr") \in {NoData, Pix(-1)}

----------------------------------------------------------------------------
(* Compositor and deviation detector: properties *)

\* the observations of the day-of-year window [June 15, September 1) of year y
InWindow(y) == {o \in imgCol : y * 10000 + 615 <= o.t /\ o.t < y * 10000 + 901}
AllNoData(img) == \A i \in 1..Len(img.px) : img.px[i] = NoData
Composited == cpc \in {"composites", "baseline", "deviations", "rules"}

PreNames ==
  <<"pre_nbr", "pre_nbr2", "pre_ndvi", "pre_ndmi", "pre_ndwi", "pre_evi",
    "pre_mirbi", "pre_bai", "pre_baims", "pre_csi", "pre_bsi", "pre_msavi",
    "pre_tcb", "pre_tcg", "pre_tcw">>
PostNames ==
  <<"post_nbr", "post_nbr2", "post_ndvi", "post_ndmi", "post_ndwi", "post_evi",
    "post_mirbi", "post_bai", "post_baims", "post_csi", "post_bsi", "post_msavi",
    "post_tcb", "post_tcg", "post_tcw">>

\* C4: the pre-fire and post-fire composites always have exactly the 15
\* prefixed band names, and with no observation in a window every band of
\* that window's composite is no-data.
C4_EmptyWindowComposite ==
  Composited =>
    /\ ~composite.pre_filled.err /\ composite.pre_filled.names = PreNames
    /\ ~composite.post_filled.err /\ composite.post_filled.names = PostNames
    /\ InWindow(year_select - 1) = {} => AllNoData(composite.pre_filled)
    /\ InWindow(year_select + 1) = {} => AllNoData(composite.post_filled)

C4_Witness ==
  /\ cpc = "composites"
  /\ InWindow(year_select - 1) = {}
  /\ InWindow(year_select + 1) # {}
  /\ Len(composite.pre_filled.px) = 15
  /\ AllNoData(composite.pre_filled)
  /\ ~AllNoData(composite.post_filled)

\* C5: whatever windows are empty, no selected band is missing: dnbr finds
\* pre_nbr and post_nbr, the rules find nbr2 of divCol and subCol and nbr
\* of meanCol, and the baseline has the 15 index bands.
C5_NoWindowError ==
  cpc = "rules" =>
    /\ ~ruleBands.pre_nbr.err /\ ~ruleBands.post_nbr.err
    /\ deviation.PREmedian.names = allVariables
    /\ ~ruleBands.div_nbr2.err
    /\ ~ruleBands.sub_nbr2.err
    /\ ~ruleBands.min_nbr.err

\* the value, in hundredths, of band i of a clear observation
Val(o, i) == o.level.v + i - 1
Clear(W) == {o \in W : o.level.clear}
AtMost(D, i, x) == Cardinality({o \in D : Val(o, i) <= x})
AtLeast(D, i, x) == Cardinality({o \in D : Val(o, i) >= x})
\* x is a k-th smallest value of band i among the observations D
IsKth(D, i, k, x) ==
  /\ \E o \in D : Val(o, i) = x
  /\ AtMost(D, i, x) >= k
  /\ AtLeast(D, i, x) >= Cardinality(D) - k + 1
Values(D, i) == {Val(o, i) : o \in D}
\* the median of band i over the clear observations of W: no-data when
\* there is none, else the mean of the two middle order statistics
MedianOf(W, i) ==
  LET D == Clear(W)
      n == Cardinality(D)
      x == CHOOSE v \in Values(D, i) : IsKth(D, i, (n + 1) \div 2, v)
      y == CHOOSE v \in Values(D, i) : IsKth(D, i, (n \div 2) + 1, v)
  IN IF n = 0 THEN NoData ELSE Rat(x + y, 200)
IsMedianOf(W, i, m) == m = MedianOf(W, i)

\* C14: for the analysis year Y, every band of the pre-fire composite is the
\* median of exactly the observations dated in [June 15, September 1) of
\* Y-1, and every band of the post-fire composite the median of exactly
\* those of Y+1; observations of other dates do not contribute.
C14_CompositeWindows ==
  Composited =>
    /\ year_select \in 1985..2023
    /\ composite.pre_filled.names = PreNames
    /\ composite.post_filled.names = PostNames
    /\ \A i \in 1..15 :
         /\ IsMedianOf(InWindow(year_select - 1), i, composite.pre_filled.px[i])
         /\ IsMedianOf(InWindow(year_select + 1), i, composite.post_filled.px[i])

\* June 15 of Y-1 is in the window, September 1 of Y-1 is not
C14_Witness ==
  /\ cpc = "composites"
  /\ imgCol = {[t |-> (year_select - 1) * 10000 + 615, level |-> [clear |-> TRUE, v |-> -20]],
               [t |-> (year_select - 1) * 10000 + 901, level |-> [clear |-> TRUE, v |-> 30]]}
  /\ band(composite.pre_filled, "pre_nbr") = Rat(-20, 100)
  /\ AllNoData(composite.post_filled)

\* an observation of the analysis year contributes to neither composite
C14_WitnessFireYear ==
  /\ cpc = "composites"
  /\ \E o \in InWindow(year_select) : o.level.clear
  /\ \E o \in InWindow(year_select + 1) : o.level.v = -20
  /\ Cardinality(InWindow(year_select + 1)) = 1
  /\ band(composite.post_filled, "post_nbr2") = Rat(-19, 100)
  /\ AllNoData(composite.pre_filled)

\* the baseline: the windows of the three years before the analysis year
BaseWindow ==
  InWindow(year_select - 1) \cup InWindow(year_select - 2) \cup InWindow(year_select - 3)

RECURSIVE SumVal(_, _)
SumVal(D, i) ==
  IF D = {} THEN 0
  ELSE LET o == CHOOSE x \in D : TRUE IN Val(o, i) + SumVal(D \ {o}, i)
MeanOf(W, i) ==
  IF Clear(W) = {} THEN NoData
  ELSE Rat(SumVal(Clear(W), i), 100 * Cardinality(Clear(W)))

\* quotient, difference and minimum of two pixel values
Quot(m, p) ==
  IF m = NoData \/ p = NoData THEN NoData
  ELSE IF p.v = 0 THEN Pix(0) ELSE Rat(m.v * p.d, m.d * p.v)
Diff(m, p) ==
  IF m = NoData \/ p = NoData THEN NoData ELSE Rat(m.v * p.d - p.v * m.d, m.d * p.d)
Least(a, b) ==
  IF a = NoData THEN b
  ELSE IF b = NoData THEN a
  ELSE IF a.v * b.d <= b.v * a.d THEN a ELSE b

Deviated == cpc \in {"deviations", "rules"}

\* the formulas of PREmedian, divCol and subCol on band i
DeviationFormulas(i) ==
  LET pre == deviation.PREmedian.px[i]
  IN /\ IsMedianOf(BaseWindow, i, pre)
     /\ deviation.divCol.px[i] =
          Least(Quot(MedianOf(InWindow(year_select), i), pre),
                Quot(MedianOf(InWindow(year_select + 1), i), pre))
     /\ deviation.subCol.px[i] =
          Least(Diff(MeanOf(InWindow(year_select), i), pre),
                Diff(MeanOf(InWindow(year_select + 1), i), pre))

\* C15: PREmedian is on every band the median of the observations of the
\* windows of Y-1, Y-2 and Y-3 together, divCol the minimum over the windows
\* of Y and Y+1 of the median of obs / PREmedian, and subCol the minimum
\* over the same windows of the mean of obs - PREmedian.
C15_DeviationFormulas ==
  Deviated =>
    /\ deviation.PREmedian.names = allVariables
    /\ deviation.divCol.names = allVariables
    /\ deviation.subCol.names = allVariables
    /\ \A i \in 1..15 : DeviationFormulas(i)

\* the formulas hold whenever the baseline and both evaluation windows hold
\* an observation
DeviationWhenObserved ==
  (/\ Deviated
   /\ BaseWindow # {}
   /\ InWindow(year_select) # {}
   /\ InWindow(year_select + 1) # {}) =>
    /\ deviation.PREmedian.names = allVariables
    /\ deviation.divCol.names = allVariables
    /\ deviation.subCol.names = allVariables
    /\ \A i \in 1..15 : DeviationFormulas(i)

----------------------------------------------------------------------------
(* Assembly: properties *)

IsL7(a) == a.sensor = "LE07"
\* a Landsat 7 acquisition the claim speaks of
L7InRange(a) == IsL7(a) /\ 19990101 <= a.t /\ a.t < 20330101
PostFailure(a) == IsL7(a) /\ a.t >= 20030601
Acq(e) == [sensor |-> e.sensor, t |-> e.t]

\* C17: every Landsat 7 acquisition of [1999-01-01, 2033-01-01) is in
\* exactly one of ls7SR_OK and ls7SR_BAD, in ls7SR_BAD exactly when dated
\* on or after 2003-06-01; in the merged collection an observation has the
\* degraded-sensor mask exactly when it is a Landsat 7 acquisition dated on
\* or after 2003-06-01, the standard mask otherwise, and appears once.
C17_SensorSplit ==
  /\ apc \in {"filtered", "mapped", "merged"} =>
       \A a \in catalog :
         L7InRange(a) =>
           /\ (a \in srCols["ls7_OK"]) # (a \in srCols["ls7_BAD"])
           /\ (a \in srCols["ls7_BAD"]) <=> PostFailure(a)
  /\ apc = "merged" =>
       /\ \A e \in lsCol :
            /\ Acq(e) \in catalog
            /\ e.mask = (IF PostFailure(e) THEN "SLC_lsMask" ELSE "lsMaskNew")
            /\ \A f \in lsCol : Acq(f) = Acq(e) => f = e
       /\ \A a \in catalog :
            (~IsL7(a) \/ L7InRange(a)) => \E e \in lsCol : Acq(e) = a

\* the day of the failure and the day before it, both Landsat 7
C17_Witness ==
  /\ apc = "merged"
  /\ catalog = {[sensor |-> "LE07", t |-> 20030531], [sensor |-> "LE07", t |-> 20030601]}
  /\ \E e \in lsCol : e.t = 20030601 /\ e.mask = "SLC_lsMask"
  /\ \E e \in lsCol : e.t = 20030531 /\ e.mask = "lsMaskNew"

----------------------------------------------------------------------------
(* Runs and exports: properties *)

Runs == 1..Len(log)
InRun == rpc \in {"roi", "pipeline", "branch"}
TiledRun(r) == log[r].Export_select /\ ~log[r].ROI_select
\* the number of tasks a run issued for a tile
IssuedFor(r, tile) ==
  Cardinality({j \in 1..Len(log[r].issued) : log[r].issued[j].tile = tile})

\* C11: in a default-region run with export enabled every cell of the
\* covering grid has exactly one export task.
C11_EveryTileOnce ==
  \A r \in Runs :
    TiledRun(r) =>
      \A k \in 1..Len(log[r].grid) : IssuedFor(r, log[r].grid[k]) = 1

\* as coded: the cells 1 .. 23 once each, the cell 0 never
TilesAsCoded ==
  \A r \in Runs :
    TiledRun(r) =>
      /\ Len(log[r].grid) = 24
      /\ Len(log[r].issued) = 23
      /\ IssuedFor(r, 0) = 0
      /\ \A k \in 1..23 : IssuedFor(r, k) = 1

\* C12: two export tasks that differ in analysis year, ROI or tile have
\* different names.
C12_UniqueNames ==
  \A i, j \in 1..Len(tasks) :
    (\/ tasks[i].year_select # tasks[j].year_select
     \/ tasks[i].ROI # tasks[j].ROI
     \/ tasks[i].tile # tasks[j].tile) =>
      tasks[i].description # tasks[j].description

\* as coded: the name tells the year and the tile, not the drawn region
NamesAsCoded ==
  \A i, j \in 1..Len(tasks) :
    (\/ tasks[i].year_select # tasks[j].year_select
     \/ tasks[i].tile # tasks[j].tile) =>
      tasks[i].description # tasks[j].description

RECURSIVE TotalIssued(_)
TotalIssued(l) == IF l = <<>> THEN 0 ELSE Len(Head(l).issued) + TotalIssued(Tail(l))

\* C16: a run without export issues no task and adds the probability layer,
\* a run with export and a drawn ROI issues exactly one, a run stopped
\* before the export branch issues none, and no task exists that an export
\* branch did not issue.
C16_ExportOnlyOnRequest ==
  /\ \A r \in Runs :
       /\ log[r].abandoned => log[r].issued = <<>>
       /\ ~log[r].Export_select => log[r].issued = <<>>
       /\ (log[r].Export_select /\ log[r].ROI_select /\ ~log[r].abandoned) =>
            Len(log[r].issued) = 1
       /\ TiledRun(r) => Len(log[r].issued) > 1
  /\ Len(tasks) = TotalIssued(log)
  /\ InRun => run.issued = <<>>
  /\ (rpc = "idle" /\ log # <<>> /\ ~log[Len(log)].abandoned) =>
       mapLayers = <<"ROI", "RFprediction">>
  /\ InRun => "RFprediction" \notin {mapLayers[k] : k \in 1..Len(mapLayers)}

\* a run without export, then a run with export of a drawn ROI
C16_Witness ==
  /\ rpc = "idle"
  /\ Len(log) = 2
  /\ ~log[1].Export_select /\ ~log[1].abandoned
  /\ log[2].Export_select /\ log[2].ROI_select /\ ~log[2].abandoned
  /\ Len(tasks) = 1
  /\ mapLayers = <<"ROI", "RFprediction">>

\* a run stopped before the export branch, export enabled
C16_WitnessAbandoned ==
  /\ rpc = "idle"
  /\ Len(log) = 1
  /\ log[1].abandoned /\ log[1].Export_select
  /\ tasks = <<>>

SameResult(a, b) ==
  /\ a.ROI = b.ROI
  /\ a.year_select = b.year_select
  /\ a.issued = b.issued
  /\ a.abandoned = b.abandoned

\* C19 as stated: a run that follows another with no user action between
\* them uses the same ROI and gives the same result, and a run in
\* drawn-polygon mode leaves the drawn geometries as they were.
C19_NoStateLeft ==
  /\ \A r \in Runs : (r > 1 /\ log[r].quiet) => SameResult(log[r - 1], log[r])
  /\ \A r \in Runs : log[r].ROI_select => log[r].after = log[r].before

\* C19: a run changes no widget; in default-region mode it leaves the
\* drawing layer alone and a run that follows with no user action between
\* them gives the same result; in drawn-polygon mode it takes every drawn
\* geometry as its ROI and removes the first one from the drawing layer, so
\* a run that follows with no user action uses the remaining geometries.
C19_DrawnRunConsumesGeometry ==
  /\ \A r \in Runs :
       /\ ~log[r].ROI_select =>
            /\ log[r].after = log[r].before
            /\ (r > 1 /\ log[r].quiet) => SameResult(log[r - 1], log[r])
       /\ (log[r].ROI_select /\ ~log[r].abandoned) =>
            /\ log[r].ROI.geoms = flatten(log[r].before)
            /\ Len(log[r].after) = Len(log[r].before)
            /\ flatten(log[r].after) =
                 (IF flatten(log[r].before) = <<>> THEN <<>>
                  ELSE SubSeq(flatten(log[r].before), 2, Len(flatten(log[r].before))))
       /\ (log[r].ROI_select /\ log[r].abandoned) =>
            log[r].before = <<>> /\ log[r].after = <<>>
       /\ (r > 1 /\ log[r].quiet) =>
            /\ log[r].before = log[r - 1].after
            /\ log[r].ROI_select = log[r - 1].ROI_select
            /\ log[r].Export_select = log[r - 1].Export_select
            /\ (~log[r].abandoned /\ ~log[r - 1].abandoned) =>
                 log[r].year_select = log[r - 1].year_select
  /\ (rpc = "idle" /\ ~touched /\ log # <<>>) =>
       /\ drawLayers = log[Len(log)].after
       /\ ROI_selection = log[Len(log)].ROI_select
       /\ Download_selection = log[Len(log)].Export_select
       /\ ~log[Len(log)].abandoned => year_selection = log[Len(log)].year_select

\* two runs in drawn-polygon mode, nothing touched between them: the first
\* takes the one drawn rectangle, the second finds none
C19_Witness ==
  /\ rpc = "idle"
  /\ Len(log) = 2
  /\ log[1].ROI_select /\ log[2].ROI_select /\ log[2].quiet
  /\ Len(log[1].ROI.geoms) = 1
  /\ log[2].ROI.geoms = <<>>
  /\ ~log[2].abandoned

====
